---- MODULE Spec2Model ----
(***************************************************************************)
(* Model of the factorio-settings property tree codec (src/src/codec.rs)   *)
(* and of the projection onto the simple settings (src/src/simple.rs).     *)
(*                                                                         *)
(* Representation                                                          *)
(*   byte           an integer 0..255                                      *)
(*   stream         a sequence of bytes; a reader is (stream, pos) where   *)
(*                  pos is the number of bytes consumed so far             *)
(*   String         the sequence of its UTF-8 bytes                        *)
(*   f64, i64       the 8 bytes of the bit pattern, most significant first *)
(*   IndexMap       a sequence of <<key, value>> pairs with distinct keys, *)
(*                  in iteration order                                     *)
(*   PropertyValue  [type, b, bytes, dict, list]: the variant and its      *)
(*                  payload in the field of its kind (b for Bool, bytes    *)
(*                  for Double, Integer and String, dict for Dictionary,   *)
(*                  list for List), the other fields empty                 *)
(*   Property       [any_flag, value]                                      *)
(*   anyhow::Result [kind, val, pos, err] with kind "ok", "err" or "panic" *)
(*                  (a panic is the todo!() of the List codec)             *)
(***************************************************************************)
EXTENDS Integers, Sequences, FiniteSets, TLC

(* ---- type tags, codec.rs:8-14 ---- *)
TYPE_NONE == 0
TYPE_BOOL == 1
TYPE_DOUBLE == 2
TYPE_STRING == 3
TYPE_LIST == 4
TYPE_DICTIONARY == 5
TYPE_INTEGER == 6

Byte == 0..255

(* ---- results ---- *)
Ok(v, p) == [kind |-> "ok", val |-> v, pos |-> p, err |-> "none"]
Err(e, p) == [kind |-> "err", val |-> <<>>, pos |-> p, err |-> e]
Panic(p) == [kind |-> "panic", val |-> <<>>, pos |-> p, err |-> "todo"]
Fail(r) == [kind |-> r.kind, val |-> <<>>, pos |-> r.pos, err |-> r.err]

(* the ? operator: go on with the value and the reader position of an Ok,  *)
(* return the failure otherwise                                            *)
Try(r, then(_, _)) == IF r.kind = "ok" THEN then(r.val, r.pos) ELSE Fail(r)

Reverse(s) == [i \in 1..Len(s) |-> s[Len(s) + 1 - i]]

(* ---- std::io::Read over an in-memory stream ---- *)
ReadExact(bs, pos, n) ==
    IF n <= Len(bs) - pos
    THEN Ok(SubSeq(bs, pos + 1, pos + n), pos + n)
    ELSE Err("UnexpectedEof", pos)

ReadU8(bs, pos) ==
    IF pos + 1 <= Len(bs)
    THEN Ok(bs[pos + 1], pos + 1)
    ELSE Err("UnexpectedEof", pos)

FromLE16(b) == b[1] + 256 * b[2]

(* The largest integer of the model checker is 2^31 - 1.  A u32 of 2^31 or *)
(* more is only ever used as a number of bytes or of entries to read from  *)
(* a stream that is far shorter, where every such value behaves alike.     *)
FromLE32(b) ==
    IF b[4] >= 128
    THEN 2147483647
    ELSE b[1] + 256 * b[2] + 65536 * b[3] + 16777216 * b[4]

ToLE16(n) == <<n % 256, (n \div 256) % 256>>

ToLE32(n) ==
    <<n % 256, (n \div 256) % 256, (n \div 65536) % 256, (n \div 16777216) % 256>>

ReadU32(bs, pos) ==
    Try(ReadExact(bs, pos, 4), LAMBDA b, p : Ok(FromLE32(b), p))

(* ---- codec.rs:389-397 ---- *)
loose_bool_strict(input) == input # 0

loose_bool(input) == input = 1

loose_bool_byte_zero(input) == 0

loose_bool_byte(input) == IF input THEN 1 ELSE 0

(* ---- codec.rs:399-416 ---- *)
read_optimized_u32(bs, pos) ==
    Try(ReadU8(bs, pos),
        LAMBDA byte, p : IF byte = 255 THEN ReadU32(bs, p) ELSE Ok(byte, p))

write_optimized_u32_off_by_one(value) ==
    IF value <= 255 THEN <<value % 256>> ELSE <<255>> \o ToLE32(value)

write_optimized_u32(value) ==
    IF value < 255 THEN <<value>> ELSE <<255>> \o ToLE32(value)

(* ---- String::from_utf8 ---- *)
IsCont(b) == b >= 128 /\ b <= 191

(* bytes of the sequence a first byte announces; 0 for a byte that starts none *)
LeadLen(b) ==
    IF b < 128 THEN 1
    ELSE IF b >= 194 /\ b <= 223 THEN 2
    ELSE IF b >= 224 /\ b <= 239 THEN 3
    ELSE IF b >= 240 /\ b <= 244 THEN 4
    ELSE 0

SecondOk(b, c) ==
    /\ IsCont(c)
    /\ (b = 224 => c >= 160)
    /\ (b = 237 => c <= 159)
    /\ (b = 240 => c >= 144)
    /\ (b = 244 => c <= 143)

WellFormedAt(s, i) ==
    /\ LeadLen(s[i]) >= 1
    /\ i + LeadLen(s[i]) - 1 <= Len(s)
    /\ (LeadLen(s[i]) >= 2 => SecondOk(s[i], s[i + 1]))
    /\ \A k \in 2..(LeadLen(s[i]) - 1) : IsCont(s[i + k])

(* every byte starts a well-formed sequence or continues the one that a   *)
(* first byte at most three places before it announces                    *)
Utf8Valid(s) ==
    \A i \in 1..Len(s) :
        IF IsCont(s[i])
        THEN \E k \in 1..3 :
                /\ i - k >= 1
                /\ LeadLen(s[i - k]) > k
                /\ \A j \in (i - k + 1)..(i - 1) : IsCont(s[j])
        ELSE WellFormedAt(s, i)

(* ---- impl Codec for FactorioVersion, codec.rs:16-38 ---- *)
VersionDecode(bs, pos) ==
    Try(ReadExact(bs, pos, 8),
        LAMBDA vers, p : Ok([major |-> FromLE16(SubSeq(vers, 1, 2)),
                             minor |-> FromLE16(SubSeq(vers, 3, 4)),
                             patch |-> FromLE16(SubSeq(vers, 5, 6)),
                             build |-> FromLE16(SubSeq(vers, 7, 8))], p))

VersionEncode(v) ==
    ToLE16(v.major) \o ToLE16(v.minor) \o ToLE16(v.patch) \o ToLE16(v.build)

(* ---- impl Ord for FactorioVersion, types.rs:12-40 ---- *)
cmp_without_build(self, other) ==
    IF self.major = other.major
    THEN IF self.minor = other.minor
         THEN IF self.patch = other.patch THEN "Equal"
              ELSE IF self.patch > other.patch THEN "Greater"
              ELSE IF self.patch < other.patch THEN "Less"
              ELSE "unreachable"
         ELSE IF self.minor > other.minor THEN "Greater"
         ELSE IF self.minor < other.minor THEN "Less"
         ELSE "unreachable"
    ELSE IF self.major > other.major THEN "Greater"
    ELSE IF self.major < other.major THEN "Less"
    ELSE "unreachable"

cmp(self, other) ==
    IF self.major = other.major
    THEN IF self.minor = other.minor
         THEN IF self.patch = other.patch
              THEN IF self.build = other.build THEN "Equal"
                   ELSE IF self.build > other.build THEN "Greater"
                   ELSE IF self.build < other.build THEN "Less"
                   ELSE "unreachable"
              ELSE IF self.patch > other.patch THEN "Greater"
              ELSE IF self.patch < other.patch THEN "Less"
              ELSE "unreachable"
         ELSE IF self.minor > other.minor THEN "Greater"
         ELSE IF self.minor < other.minor THEN "Less"
         ELSE "unreachable"
    ELSE IF self.major > other.major THEN "Greater"
    ELSE IF self.major < other.major THEN "Less"
    ELSE "unreachable"

(* ---- impl PartialOrd for FactorioVersion, types.rs:41-45: Some(x) is <<x>> *)
partial_cmp(self, other) == <<cmp(self, other)>>

(* ---- impl Codec for bool, codec.rs:297-309 ---- *)
BoolDecode(bs, pos) ==
    Try(ReadU8(bs, pos), LAMBDA byte, p : Ok(loose_bool(byte), p))

BoolEncode(b) == <<IF b THEN 1 ELSE 0>>

(* ---- impl Codec for f64 and i64, codec.rs:311-320, 378-387 ---- *)
F64Decode(bs, pos) ==
    Try(ReadExact(bs, pos, 8), LAMBDA b, p : Ok(Reverse(b), p))

F64Encode(num) == Reverse(num)

I64Decode(bs, pos) ==
    Try(ReadExact(bs, pos, 8), LAMBDA b, p : Ok(Reverse(b), p))

I64Encode(int) == Reverse(int)

(* ---- impl Codec for String, codec.rs:322-344 ---- *)
StringDecodeReadsLength(bs, pos) ==
    Try(ReadU8(bs, pos), LAMBDA empty_byte, p1 :
        Try(read_optimized_u32(bs, p1), LAMBDA length, p2 :
            IF ~loose_bool(empty_byte)
            THEN Try(ReadExact(bs, p2, length), LAMBDA vec, p3 :
                     IF Utf8Valid(vec) THEN Ok(vec, p3)
                     ELSE Err("FromUtf8Error", p3))
            ELSE Ok(<<>>, p2)))

StringDecode(bs, pos) ==
    Try(ReadU8(bs, pos), LAMBDA empty_byte, p1 :
        IF ~loose_bool(empty_byte)
        THEN Try(read_optimized_u32(bs, p1), LAMBDA length, p2 :
             Try(ReadExact(bs, p2, length), LAMBDA vec, p3 :
                 IF Utf8Valid(vec) THEN Ok(vec, p3)
                 ELSE Err("FromUtf8Error", p3)))
        ELSE Ok(<<>>, p1))

StringEncodeEmptyFlag(s) ==
    IF s = <<>> THEN <<1>> ELSE <<0>> \o write_optimized_u32(Len(s)) \o s

StringEncode(s) == <<0>> \o write_optimized_u32(Len(s)) \o s

(* ---- IndexMap ---- *)
Keys(map) == [i \in 1..Len(map) |-> map[i][1]]

HasKey(map, key) == \E i \in 1..Len(map) : map[i][1] = key

IndexOf(map, key) == CHOOSE i \in 1..Len(map) : map[i][1] = key

Get(map, key) == map[IndexOf(map, key)][2]

MapInsertAppend(map, key, value) == Append(map, <<key, value>>)

MapInsert(map, key, value) ==
    IF HasKey(map, key)
    THEN [map EXCEPT ![IndexOf(map, key)] = <<key, value>>]
    ELSE Append(map, <<key, value>>)

(* ---- Property and PropertyValue, codec.rs:40-55 ---- *)
PvNone == [type |-> "None", b |-> FALSE, bytes |-> <<>>, dict |-> <<>>, list |-> <<>>]

PvBool(b) == [PvNone EXCEPT !.type = "Bool", !.b = b]

PvDouble(f) == [PvNone EXCEPT !.type = "Double", !.bytes = f]

PvString(s) == [PvNone EXCEPT !.type = "String", !.bytes = s]

PvList(l) == [PvNone EXCEPT !.type = "List", !.list = l]

PvDictionary(map) == [PvNone EXCEPT !.type = "Dictionary", !.dict = map]

PvInteger(i) == [PvNone EXCEPT !.type = "Integer", !.bytes = i]

Prop(flag, value) == [any_flag |-> flag, value |-> value]

(* ---- impl Codec for Property, codec.rs:107-128; impl Codec for          *)
(*      IndexMap<String, Property>, codec.rs:356-366; impl Codec for       *)
(*      Vec<Property>, codec.rs:346-349 ---- *)
VecDecode(bs, pos) == Panic(pos)

UnknownTypeAsNone(other, pos) == Ok(PvNone, pos)

UnknownType(other, pos) == Err("UnknownType", pos)

RECURSIVE PropertyDecode(_, _)
RECURSIVE MapDecodeLoop(_, _, _, _)

MapDecodeLoop(bs, pos, remaining, map) ==
    IF remaining = 0 THEN Ok(map, pos)
    ELSE Try(StringDecode(bs, pos), LAMBDA name, p1 :
         Try(PropertyDecode(bs, p1), LAMBDA value, p2 :
             MapDecodeLoop(bs, p2, remaining - 1, MapInsert(map, name, value))))

MapDecode(bs, pos) ==
    Try(ReadU32(bs, pos), LAMBDA count, p : MapDecodeLoop(bs, p, count, <<>>))

(* the match on the tag byte, codec.rs:114-123 *)
ValueDecode(bs, pos, vtype) ==
    CASE vtype = TYPE_NONE -> Ok(PvNone, pos)
      [] vtype = TYPE_BOOL ->
            Try(BoolDecode(bs, pos), LAMBDA b, p : Ok(PvBool(b), p))
      [] vtype = TYPE_DOUBLE ->
            Try(F64Decode(bs, pos), LAMBDA f, p : Ok(PvDouble(f), p))
      [] vtype = TYPE_STRING ->
            Try(StringDecode(bs, pos), LAMBDA s, p : Ok(PvString(s), p))
      [] vtype = TYPE_LIST ->
            Try(VecDecode(bs, pos), LAMBDA l, p : Ok(PvList(l), p))
      [] vtype = TYPE_DICTIONARY ->
            Try(MapDecode(bs, pos), LAMBDA d, p : Ok(PvDictionary(d), p))
      [] vtype = TYPE_INTEGER ->
            Try(I64Decode(bs, pos), LAMBDA i, p : Ok(PvInteger(i), p))
      [] OTHER -> UnknownType(vtype, pos)

PropertyDecode(bs, pos) ==
    Try(ReadExact(bs, pos, 2), LAMBDA tree_header, p1 :
    Try(ValueDecode(bs, p1, tree_header[1]), LAMBDA value, p2 :
        Ok(Prop(loose_bool(tree_header[2]), value), p2)))

(* ---- impl Codec for Property, codec.rs:130-169; impl Codec for          *)
(*      IndexMap<String, Property>, codec.rs:368-375; impl Codec for       *)
(*      Vec<Property>, codec.rs:351-353.  The writer is an in-memory       *)
(*      buffer and never fails; the result is [kind, bytes] with the bytes *)
(*      written so far. ---- *)
Written(bytes) == [kind |-> "ok", bytes |-> bytes]

Aborted(bytes) == [kind |-> "panic", bytes |-> bytes]

After(bytes, r) == [kind |-> r.kind, bytes |-> bytes \o r.bytes]

VecEncode(list) == Aborted(<<>>)

RECURSIVE PropertyEncode(_)
RECURSIVE MapEncodeLoop(_, _)

MapEncodeLoop(map, i) ==
    IF i > Len(map) THEN Written(<<>>)
    ELSE LET value == PropertyEncode(map[i][2])
             head == After(StringEncode(map[i][1]), value)
         IN  IF value.kind # "ok" THEN head
             ELSE After(head.bytes, MapEncodeLoop(map, i + 1))

MapEncode(map) == After(ToLE32(Len(map)), MapEncodeLoop(map, 1))

PropertyEncode(p) ==
    LET flag == <<loose_bool_byte(p.any_flag)>>
        value == p.value
    IN  CASE value.type = "None" -> Written(<<TYPE_NONE>> \o flag)
          [] value.type = "Bool" ->
                Written(<<TYPE_BOOL>> \o flag \o BoolEncode(value.b))
          [] value.type = "Double" ->
                Written(<<TYPE_DOUBLE>> \o flag \o F64Encode(value.bytes))
          [] value.type = "String" ->
                Written(<<TYPE_STRING>> \o flag \o StringEncode(value.bytes))
          [] value.type = "List" ->
                After(<<TYPE_LIST>> \o flag, VecEncode(value.list))
          [] value.type = "Dictionary" ->
                After(<<TYPE_DICTIONARY>> \o flag, MapEncode(value.dict))
          [] value.type = "Integer" ->
                Written(<<TYPE_INTEGER>> \o flag \o I64Encode(value.bytes))

(* ---- impl Codec for Settings, codec.rs:271-290 ---- *)
ReservedOkLoose(byte) == ~loose_bool(byte)

ReservedOk(byte) == byte = 0

SettingsDecode(bs) ==
    Try(VersionDecode(bs, 0), LAMBDA version, p1 :
    Try(ReadU8(bs, p1), LAMBDA byte, p2 :
        IF ~ReservedOk(byte)
        THEN Err("Byte at 0x8 should be false", p2)
        ELSE Try(PropertyDecode(bs, p2), LAMBDA settings, p3 :
                 Ok([version |-> version, properties |-> settings], p3))))

SettingsEncode(settings) ==
    After(VersionEncode(settings.version) \o <<0>>,
          PropertyEncode(settings.properties))

(* ---- string literals of the source, as UTF-8 bytes ---- *)
STARTUP == <<115, 116, 97, 114, 116, 117, 112>>

RUNTIME_GLOBAL == <<114, 117, 110, 116, 105, 109, 101, 45, 103, 108, 111, 98, 97, 108>>

RUNTIME_PER_USER ==
    <<114, 117, 110, 116, 105, 109, 101, 45, 112, 101, 114, 45, 117, 115, 101, 114>>

VALUE == <<118, 97, 108, 117, 101>>

KEY_R == <<114>>

KEY_G == <<103>>

KEY_B == <<98>>

KEY_A == <<97>>

(* the text of a section key inside an error message *)
KeyText(key) ==
    CASE key = STARTUP -> "startup"
      [] key = RUNTIME_GLOBAL -> "runtime-global"
      [] key = RUNTIME_PER_USER -> "runtime-per-user"

(* ---- results of the projection (no reader position) ---- *)
Good(v) == [kind |-> "ok", val |-> v, err |-> "none"]

Bad(e) == [kind |-> "err", val |-> <<>>, err |-> e]

(* ---- ModSettingsValue, simple.rs:43-57 (with the Integer variant that   *)
(*      codec.rs:226 builds): [type, b, bytes, color], color being         *)
(*      <<r, g, b, a>> ---- *)
MsvNone == [type |-> "None", b |-> FALSE, bytes |-> <<>>, color |-> <<>>]

MsvBool(b) == [MsvNone EXCEPT !.type = "Bool", !.b = b]

MsvNumber(f) == [MsvNone EXCEPT !.type = "Number", !.bytes = f]

MsvString(s) == [MsvNone EXCEPT !.type = "String", !.bytes = s]

MsvColor(r, g, b, a) == [MsvNone EXCEPT !.type = "Color", !.color = <<r, g, b, a>>]

MsvInteger(i) == [MsvNone EXCEPT !.type = "Integer", !.bytes = i]

(* ---- PropertyValue::as_dictionary, codec.rs:90-96 ---- *)
as_dictionary(value) ==
    IF value.type = "Dictionary" THEN Good(value.dict) ELSE Bad("None")

(* ---- PropertyValue::as_double (as_number in simple.rs), codec.rs:66-72 *)
as_number(value) ==
    IF value.type = "Double" THEN Good(value.bytes) ELSE Bad("None")

(* ---- one channel of a Color: dict.get(key), then as_number, simple.rs:71-82 *)
Channel(dict, key, missing, notNumber) ==
    IF ~HasKey(dict, key) THEN Bad(missing)
    ELSE LET n == as_number(Get(dict, key).value)
         IN  IF n.kind # "ok" THEN Bad(notNumber) ELSE n

(* the key each channel is looked up under, simple.rs:71, 74, 77, 80 *)
ChannelKey(channel) ==
    CASE channel = "r" -> KEY_R
      [] channel = "g" -> KEY_R
      [] channel = "b" -> KEY_R
      [] channel = "a" -> KEY_R

(* ---- impl TryFrom<&Property> for ModSettingsValue, simple.rs:59-91 ---- *)
ColorFrom(dict) ==
    LET r == Channel(dict, ChannelKey("r"), "missing r (red) value",
                     "r (red) value is not number")
        g == Channel(dict, ChannelKey("g"), "missing g (green) value",
                     "g (green) value is not number")
        b == Channel(dict, ChannelKey("b"), "missing b (blue) value",
                     "b (blue) value is not number")
        a == Channel(dict, ChannelKey("a"), "missing a (alpha) value",
                     "a (alpha) value is not number")
    IN  IF r.kind # "ok" THEN r
        ELSE IF g.kind # "ok" THEN g
        ELSE IF b.kind # "ok" THEN b
        ELSE IF a.kind # "ok" THEN a
        ELSE Good(MsvColor(r.val, g.val, b.val, a.val))

ValueTryFromNone(value) ==
    IF value.value.type # "Dictionary"
    THEN Bad("Mod setting should be a dictionary")
    ELSE IF ~HasKey(value.value.dict, VALUE)
    THEN Bad("Mod setting dictionary missing value property")
    ELSE LET inner == Get(value.value.dict, VALUE).value
         IN  CASE inner.type = "Bool" -> Good(MsvBool(inner.b))
               [] inner.type = "Double" -> Good(MsvNumber(inner.bytes))
               [] inner.type = "String" -> Good(MsvString(inner.bytes))
               [] inner.type = "Dictionary" -> ColorFrom(inner.dict)
               [] inner.type = "None" -> Good(MsvNone)
               [] OTHER -> Bad("Invalid type for value parameter")

ValueTryFrom(value) ==
    IF value.value.type # "Dictionary"
    THEN Bad("Mod setting should be a dictionary")
    ELSE IF ~HasKey(value.value.dict, VALUE)
    THEN Bad("Mod setting dictionary missing value property")
    ELSE LET inner == Get(value.value.dict, VALUE).value
         IN  CASE inner.type = "Bool" -> Good(MsvBool(inner.b))
               [] inner.type = "Double" -> Good(MsvNumber(inner.bytes))
               [] inner.type = "String" -> Good(MsvString(inner.bytes))
               [] inner.type = "Dictionary" -> ColorFrom(inner.dict)
               [] OTHER -> Bad("Invalid type for value parameter")

(* ---- property_map_parse, simple.rs:17-26 ---- *)
RECURSIVE CollectEntries(_, _, _)
CollectEntries(map, i, acc) ==
    IF i > Len(map) THEN Good(acc)
    ELSE LET a == ValueTryFrom(map[i][2])
         IN  IF a.kind # "ok" THEN a
             ELSE CollectEntries(map, i + 1, MapInsert(acc, map[i][1], a.val))

property_map_parse_lenient(root, key) ==
    IF ~HasKey(root, key) THEN Good(<<>>)
    ELSE LET map == as_dictionary(Get(root, key).value)
         IN  IF map.kind # "ok"
             THEN Bad(KeyText(key) \o " settings is not a dictionary")
             ELSE CollectEntries(map.val, 1, <<>>)

property_map_parse(root, key) ==
    IF ~HasKey(root, key) THEN Bad("Missing " \o KeyText(key) \o " settings")
    ELSE LET map == as_dictionary(Get(root, key).value)
         IN  IF map.kind # "ok"
             THEN Bad(KeyText(key) \o " settings is not a dictionary")
             ELSE CollectEntries(map.val, 1, <<>>)

(* ---- impl TryFrom<&Settings> for ModSettings, simple.rs:28-41 ---- *)
SettingsTryFrom(value) ==
    LET root == as_dictionary(value.properties.value)
        startup == property_map_parse(root.val, STARTUP)
        runtime_global == property_map_parse(root.val, RUNTIME_GLOBAL)
        runtime_per_user == property_map_parse(root.val, RUNTIME_PER_USER)
    IN  IF root.kind # "ok" THEN Bad("Main properties is not a dictionary")
        ELSE IF startup.kind # "ok" THEN startup
        ELSE IF runtime_global.kind # "ok" THEN runtime_global
        ELSE IF runtime_per_user.kind # "ok" THEN runtime_per_user
        ELSE Good([factorio_version |-> value.version,
                   startup |-> startup.val,
                   runtime_global |-> runtime_global.val,
                   runtime_per_user |-> runtime_per_user.val])

(* ---- Settings::convert_simple_index_map, codec.rs:186-248 ---- *)
ColorMap(c) ==
    MapInsert(MapInsert(MapInsert(MapInsert(<<>>,
        KEY_R, Prop(FALSE, PvDouble(c[1]))),
        KEY_G, Prop(FALSE, PvDouble(c[2]))),
        KEY_B, Prop(FALSE, PvDouble(c[3]))),
        KEY_A, Prop(FALSE, PvDouble(c[4])))

prop_value_no_integer(value) ==
    CASE value.type = "None" -> PvNone
      [] value.type = "Bool" -> PvBool(value.b)
      [] value.type = "String" -> PvString(value.bytes)
      [] value.type = "Color" -> PvDictionary(ColorMap(value.color))
      [] OTHER -> PvDouble(value.bytes)

prop_value(value) ==
    CASE value.type = "None" -> PvNone
      [] value.type = "Bool" -> PvBool(value.b)
      [] value.type = "Number" -> PvDouble(value.bytes)
      [] value.type = "String" -> PvString(value.bytes)
      [] value.type = "Color" -> PvDictionary(ColorMap(value.color))
      [] value.type = "Integer" -> PvInteger(value.bytes)

RECURSIVE ConvertLoop(_, _, _)
ConvertLoop(map, i, properties) ==
    IF i > Len(map) THEN properties
    ELSE LET inner_props_map ==
                 MapInsert(<<>>, VALUE, Prop(FALSE, prop_value(map[i][2])))
         IN  ConvertLoop(map, i + 1,
                 MapInsert(properties, map[i][1],
                           Prop(FALSE, PvDictionary(inner_props_map))))

convert_simple_index_map(map) ==
    Prop(FALSE, PvDictionary(ConvertLoop(map, 1, <<>>)))

(* ---- Settings::from_simple, codec.rs:250-268 ---- *)
from_simple(simple) ==
    LET startup_properties == convert_simple_index_map(simple.startup)
        runtime_properties == convert_simple_index_map(simple.runtime_global)
        runtime_per_user_properties ==
            convert_simple_index_map(simple.runtime_per_user)
        root_map ==
            MapInsert(MapInsert(MapInsert(<<>>,
                STARTUP, startup_properties),
                RUNTIME_GLOBAL, runtime_properties),
                RUNTIME_PER_USER, runtime_per_user_properties)
    IN  [version |-> simple.factorio_version,
         properties |-> Prop(FALSE, PvDictionary(root_map))]

(***************************************************************************)
(* Inputs                                                                  *)
(***************************************************************************)
MaxEntries == 2
MaxTrailing == 1
MaxShortLen == 300

(* versions 1.1.82.4 and 2.0.7.0 and their headers *)
V11 == [major |-> 1, minor |-> 1, patch |-> 82, build |-> 4]

V20 == [major |-> 2, minor |-> 0, patch |-> 7, build |-> 0]

Versions == {V11, V20}

(* f64 and i64 values: 0.0, 0.5, 1.0 and 7, -2 *)
D0 == <<0, 0, 0, 0, 0, 0, 0, 0>>

DHalf == <<63, 224, 0, 0, 0, 0, 0, 0>>

D1 == <<63, 240, 0, 0, 0, 0, 0, 0>>

I7 == <<0, 0, 0, 0, 0, 0, 0, 7>>

IMinus2 == <<255, 255, 255, 255, 255, 255, 255, 254>>

(* setting names "n1", "n2", "n3", ..., in two orders *)
Name(i) == <<110, 48 + i>>

NameOrders == {[i \in 1..(MaxEntries + 1) |-> Name(i)],
               [i \in 1..(MaxEntries + 1) |-> Name(MaxEntries + 2 - i)]}

(* ordered maps of at most n entries with values in S *)
MapsOver(S, n) ==
    UNION {UNION {{[i \in 1..k |-> <<names[i], vals[i]>>] : vals \in [1..k -> S]}
                  : names \in NameOrders} : k \in 0..n}

(* ---- simple settings handed to from_simple ---- *)
SimpleValues ==
    {MsvNone, MsvBool(TRUE), MsvNumber(DHalf), MsvString(<<>>),
     MsvString(<<97, 98>>), MsvInteger(I7), MsvColor(D1, DHalf, D0, D1)}

SimpleSet ==
    {[factorio_version |-> ver, startup |-> st, runtime_global |-> rg,
      runtime_per_user |-> ru] :
        ver \in Versions,
        st \in MapsOver(SimpleValues, MaxEntries),
        rg \in {<<>>, <<<<Name(1), MsvBool(FALSE)>>>>,
                <<<<Name(2), MsvColor(D1, D1, D1, D1)>>>>},
        ru \in {<<>>, <<<<Name(1), MsvString(<<97>>)>>>>}}

(* ---- trees handed to the projection and to encode ---- *)
ChannelValues ==
    {Prop(FALSE, PvDouble(D1)), Prop(FALSE, PvDouble(DHalf)),
     Prop(FALSE, PvString(<<97>>))}

(* dictionaries over the keys r, g, b, a: each key absent or present *)
RECURSIVE ColorDictsFrom(_)
ColorDictsFrom(keys) ==
    IF keys = <<>> THEN {<<>>}
    ELSE LET rest == ColorDictsFrom(Tail(keys))
         IN  rest \cup {<<<<Head(keys), c>>>> \o d : c \in ChannelValues, d \in rest}

ColorDicts == ColorDictsFrom(<<KEY_R, KEY_G, KEY_B, KEY_A>>)

Section(map) == Prop(FALSE, PvDictionary(map))

Setting(leaf) == Section(<<<<VALUE, leaf>>>>)

EntrySet ==
    {Prop(FALSE, PvBool(TRUE)),
     Section(<<<<KEY_R, Prop(FALSE, PvDouble(D1))>>>>),
     Setting(Prop(FALSE, PvNone)),
     Setting(Prop(TRUE, PvBool(TRUE))),
     Setting(Prop(FALSE, PvDouble(DHalf))),
     Setting(Prop(FALSE, PvString(<<97, 98>>))),
     Setting(Prop(FALSE, PvInteger(I7))),
     Setting(Prop(FALSE, PvList(<<>>))),
     Setting(Section(ColorMap(<<D1, DHalf, D0, D1>>)))}

(* a section: absent (<<>>), or the one-element sequence of its Property *)
RichSections ==
    {<<>>, <<Prop(FALSE, PvNone)>>}
        \cup {<<Section(m)>> : m \in MapsOver(EntrySet, MaxEntries)}

PlainSections ==
    {<<>>, <<Prop(FALSE, PvString(<<97>>))>>,
     <<Section(<<<<Name(1), Setting(Prop(FALSE, PvBool(FALSE)))>>>>)>>,
     <<Section(<<<<Name(1), Setting(Prop(FALSE, PvList(<<>>)))>>>>)>>}

LastSections ==
    {<<>>, <<Section(<<>>)>>, <<Section(<<<<Name(1), Prop(FALSE, PvNone)>>>>)>>}

Entry(key, section) == IF section = <<>> THEN <<>> ELSE <<<<key, section[1]>>>>

RootOf(st, rg, ru) ==
    Section(Entry(STARTUP, st) \o Entry(RUNTIME_GLOBAL, rg)
                \o Entry(RUNTIME_PER_USER, ru))

TreeSet ==
    {[version |-> V20, properties |-> p] :
        p \in {Prop(FALSE, PvNone), Prop(TRUE, PvString(<<97>>)),
               Prop(FALSE, PvList(<<>>))}}
    \cup {[version |-> V20, properties |-> RootOf(st, rg, ru)] :
            st \in RichSections, rg \in PlainSections, ru \in LastSections}
    \cup {[version |-> V11,
           properties |-> RootOf(<<Section(<<<<Name(1), Setting(Section(d))>>>>)>>,
                                 <<Section(<<>>)>>, <<Section(<<>>)>>)] :
            d \in ColorDicts}

(* ---- byte streams handed to Settings::decode ---- *)
HDR11 == <<1, 0, 1, 0, 82, 0, 4, 0>>

HDR20 == <<2, 0, 0, 0, 7, 0, 0, 0>>

StrOf(n) == [i \in 1..n |-> 97]

(* the stream of tests::simple_encoded, codec.rs:431 *)
SampleNode ==
    <<5, 0, 3, 0, 0, 0>>
    \o <<0, 7>> \o STARTUP \o <<5, 0, 1, 0, 0, 0>>
    \o <<0, 17, 109, 121, 45, 115, 116, 114, 105, 110, 103, 45, 115, 101, 116,
         116, 105, 110, 103>>
    \o <<5, 0, 1, 0, 0, 0>> \o <<0, 5>> \o VALUE
    \o <<3, 0, 0, 8, 100, 101, 97, 100, 98, 101, 101, 102>>
    \o <<0, 14>> \o RUNTIME_GLOBAL \o <<5, 0, 0, 0, 0, 0>>
    \o <<0, 16>> \o RUNTIME_PER_USER \o <<5, 0, 0, 0, 0, 0>>

(* one root node each: None, Bool, Double 0.5, Integer 7, strings "ab",    *)
(* "" (is-empty byte), "" (length 0), "ab" (length 0xFF 02 00 00 00), an   *)
(* e with acute accent; dictionaries {a: true, b: None}, {a: true,         *)
(* b: None, a: false}, {k: {"": "x"}}; a List; {a: List}                   *)
ShortNodes ==
    {<<0, 0>>,
     <<1, 1, 1>>,
     <<2, 0, 0, 0, 0, 0, 0, 0, 224, 63>>,
     <<6, 0, 7, 0, 0, 0, 0, 0, 0, 0>>,
     <<3, 0, 0, 2, 97, 98>>,
     <<3, 0, 1>>,
     <<3, 0, 0, 0>>,
     <<3, 0, 0, 255, 2, 0, 0, 0, 97, 98>>,
     <<3, 0, 0, 2, 195, 169>>,
     <<5, 0, 2, 0, 0, 0, 0, 1, 97, 1, 0, 1, 0, 1, 98, 0, 0>>,
     <<5, 0, 3, 0, 0, 0, 0, 1, 97, 1, 0, 1, 0, 1, 98, 0, 0, 0, 1, 97, 1, 0, 0>>,
     <<5, 1, 1, 0, 0, 0, 0, 1, 107, 5, 0, 1, 0, 0, 0, 1, 3, 0, 0, 1, 120>>,
     <<4, 0, 0, 0, 0, 0>>,
     <<5, 0, 1, 0, 0, 0, 0, 1, 97, 4, 0, 0, 0, 0, 0>>}

(* strings of 254 and 255 bytes, and one of 254 bytes behind a long prefix *)
LongNodes ==
    {<<3, 0, 0, 254>> \o StrOf(254),
     <<3, 0, 0, 255, 255, 0, 0, 0>> \o StrOf(255),
     <<3, 0, 0, 255, 254, 0, 0, 0>> \o StrOf(254)}

Stream(hdr, node) == hdr \o <<0>> \o node

Plain ==
    {Stream(HDR11, n) : n \in ShortNodes \cup {SampleNode}}
        \cup {Stream(HDR20, n) : n \in ShortNodes \cup LongNodes}

MutBytes == {0, 1, 2, 3, 4, 5, 6, 7, 128, 255}

Mutated ==
    UNION {{[b EXCEPT ![i] = v] : i \in 1..Len(b), v \in MutBytes} :
           b \in {Stream(HDR11, n) : n \in ShortNodes \cup {SampleNode}}}

Truncated ==
    UNION {{SubSeq(b, 1, k) : k \in 0..Len(b)} :
           b \in {Stream(HDR11, n) : n \in ShortNodes}}

TrailBytes == {0, 5, 255}

Trailed ==
    UNION {UNION {{b \o t : t \in [1..k -> TrailBytes]} : k \in 1..MaxTrailing} :
           b \in {Stream(HDR20, n) : n \in ShortNodes}}

(* every value of the reserved byte, of the any-flag, of a Bool payload    *)
(* and of the is-empty byte of a string                                    *)
Sweeps ==
    {HDR11 \o <<x>> \o <<0, 0>> : x \in Byte}
        \cup {Stream(HDR11, <<1, x, y>>) : x \in Byte, y \in {0, 1, 2, 255}}
        \cup {Stream(HDR11, <<1, x, y>>) : x \in {0, 1}, y \in Byte}
        \cup {Stream(HDR11, <<3, 0, x, 1, 97>>) : x \in Byte}
        \cup {Stream(HDR11, <<5, 0, 1, 0, 0, 0, x, 1, 97, 0, 0>>) : x \in Byte}
        \cup {Stream(HDR11, <<x, 0>>) : x \in Byte}
        \cup {Stream(HDR11, <<5, 0, 1, 0, 0, 0, 0, 1, 97, x, 0>>) : x \in Byte}
        \cup {Stream(HDR11, <<5, 0, 1, 0, 0, 0, 0, 1, 97,
                               5, 1, 1, 0, 0, 0, 1, x, 0>>) : x \in Byte}

InputSet == Plain \cup Mutated \cup Truncated \cup Trailed \cup Sweeps

(* ---- lengths handed to write_optimized_u32 ---- *)
(* ---- versions handed to cmp: each field the least, the next and the greatest u16 *)
FieldValues == {0, 1, 65535}

VersionSet ==
    {[major |-> a, minor |-> b, patch |-> c, build |-> d] :
        a \in FieldValues, b \in FieldValues, c \in FieldValues, d \in FieldValues}

LenSet == 0..MaxShortLen \cup {65535, 65536, 16777215, 16777216, 2147483647}

(***************************************************************************)
(* State machine: one run decodes a stream (job "decode"), builds a tree   *)
(* from simple settings (job "simple"), starts from a tree built by the    *)
(* caller (job "tree"), writes and reads one length prefix (job "length"), *)
(* or compares two versions (job "compare").                               *)
(***************************************************************************)
VARIABLES pc, job, file, dec, tree, enc, redec, mods, projected,
          len, prefix, lengthRead, left, right, ordering, partialOrdering

vars == <<pc, job, file, dec, tree, enc, redec, mods, projected,
          len, prefix, lengthRead, left, right, ordering, partialOrdering>>

cmpVars == <<left, right, ordering, partialOrdering>>

NoTree == [version |-> [major |-> 0, minor |-> 0, patch |-> 0, build |-> 0],
           properties |-> Prop(FALSE, PvNone)]

NoSimple == [factorio_version |-> NoTree.version, startup |-> <<>>,
             runtime_global |-> <<>>, runtime_per_user |-> <<>>]

NoResult == Err("not run", 0)

NoProjection == Bad("not run")

NoEncoding == [kind |-> "not run", bytes |-> <<>>]

Init ==
    /\ dec = NoResult
    /\ enc = NoEncoding
    /\ redec = NoResult
    /\ projected = NoProjection
    /\ prefix = <<>>
    /\ lengthRead = NoResult
    /\ ordering = "not run"
    /\ partialOrdering = <<>>
    /\ \/ /\ job = "decode"
          /\ pc = "start"
          /\ file \in InputSet
          /\ tree = NoTree
          /\ mods = NoSimple
          /\ len = 0
          /\ left = NoTree.version
          /\ right = NoTree.version
       \/ /\ job = "simple"
          /\ pc = "start"
          /\ file = <<>>
          /\ tree = NoTree
          /\ mods \in SimpleSet
          /\ len = 0
          /\ left = NoTree.version
          /\ right = NoTree.version
       \/ /\ job = "tree"
          /\ pc = "built"
          /\ file = <<>>
          /\ tree \in TreeSet
          /\ mods = NoSimple
          /\ len = 0
          /\ left = NoTree.version
          /\ right = NoTree.version
       \/ /\ job = "length"
          /\ pc = "start"
          /\ file = <<>>
          /\ tree = NoTree
          /\ mods = NoSimple
          /\ len \in LenSet
          /\ left = NoTree.version
          /\ right = NoTree.version
       \/ /\ job = "compare"
          /\ pc = "start"
          /\ file = <<>>
          /\ tree = NoTree
          /\ mods = NoSimple
          /\ len = 0
          /\ left \in VersionSet
          /\ right \in VersionSet

(* Settings::from_reader / Settings::decode, codec.rs:178-180, 272-282 *)
Decode ==
    /\ job = "decode"
    /\ pc = "start"
    /\ dec' = SettingsDecode(file)
    /\ tree' = IF dec'.kind = "ok" THEN dec'.val ELSE tree
    /\ pc' = IF dec'.kind = "ok" THEN "decoded" ELSE "failed"
    /\ UNCHANGED cmpVars
    /\ UNCHANGED <<job, file, enc, redec, mods, projected, len, prefix,
                   lengthRead>>

(* Settings::from_simple, codec.rs:250-268 *)
FromSimple ==
    /\ job = "simple"
    /\ pc = "start"
    /\ tree' = from_simple(mods)
    /\ pc' = "built"
    /\ UNCHANGED cmpVars
    /\ UNCHANGED <<job, file, dec, enc, redec, mods, projected, len,
                   prefix, lengthRead>>

(* Settings::encode_to_writer / Settings::encode, codec.rs:182-184, 284-289 *)
Encode ==
    /\ pc \in {"decoded", "built"}
    /\ enc' = SettingsEncode(tree)
    /\ pc' = IF enc'.kind = "ok" THEN "encoded" ELSE "aborted"
    /\ UNCHANGED cmpVars
    /\ UNCHANGED <<job, file, dec, tree, redec, mods, projected, len,
                   prefix, lengthRead>>

(* Settings::decode of the bytes that Settings::encode wrote *)
Reload ==
    /\ pc = "encoded"
    /\ redec' = SettingsDecode(enc.bytes)
    /\ pc' = "reloaded"
    /\ UNCHANGED cmpVars
    /\ UNCHANGED <<job, file, dec, tree, enc, mods, projected, len,
                   prefix, lengthRead>>

(* ModSettings::try_from, simple.rs:31-40 *)
Simplify ==
    /\ pc \in {"decoded", "built"}
    /\ projected' = SettingsTryFrom(tree)
    /\ pc' = "projected"
    /\ UNCHANGED cmpVars
    /\ UNCHANGED <<job, file, dec, tree, enc, redec, mods, len, prefix,
                   lengthRead>>

(* write_optimized_u32, codec.rs:408-416 *)
WriteLength ==
    /\ job = "length"
    /\ pc = "start"
    /\ prefix' = write_optimized_u32(len)
    /\ pc' = "written"
    /\ UNCHANGED cmpVars
    /\ UNCHANGED <<job, file, dec, tree, enc, redec, mods, projected,
                   len, lengthRead>>

(* read_optimized_u32, codec.rs:400-405 *)
ReadLength ==
    /\ job = "length"
    /\ pc = "written"
    /\ lengthRead' = read_optimized_u32(prefix, 0)
    /\ pc' = "read"
    /\ UNCHANGED cmpVars
    /\ UNCHANGED <<job, file, dec, tree, enc, redec, mods, projected,
                   len, prefix>>

(* FactorioVersion::cmp and partial_cmp, types.rs:13, 42 *)
Compare ==
    /\ job = "compare"
    /\ pc = "start"
    /\ ordering' = cmp(left, right)
    /\ partialOrdering' = partial_cmp(left, right)
    /\ pc' = "compared"
    /\ UNCHANGED <<job, file, dec, tree, enc, redec, mods, projected,
                   len, prefix, lengthRead, left, right>>

Next ==
    \/ Decode
    \/ FromSimple
    \/ Encode
    \/ Reload
    \/ Simplify
    \/ WriteLength
    \/ ReadLength
    \/ Compare

Spec == Init /\ [][Next]_vars

(***************************************************************************)
(* Properties                                                              *)
(***************************************************************************)
Decoding == job = "decode" /\ pc # "start"

(* the root node of the stream starts after the header and the reserved byte *)
RootTag == file[10]

RootFlag == file[11]

HasRoot == Len(file) >= 11 /\ file[9] = 0

(* the stream is a root Dictionary of one entry with a one-letter key,     *)
(* whose value node starts at byte 19                                      *)
OneEntryRoot ==
    /\ Len(file) >= 20
    /\ SubSeq(file, 9, 18) = <<0, 5, 0, 1, 0, 0, 0, 0, 1, 97>>

(* ... and that value is again a Dictionary of one entry with the empty    *)
(* key, whose value node starts at byte 26                                 *)
TwoLevelRoot ==
    /\ Len(file) >= 27
    /\ OneEntryRoot
    /\ SubSeq(file, 19, 25) = <<5, 1, 1, 0, 0, 0, 1>>

(* C3: a byte decodes as a boolean to true exactly when it is 0x01: the    *)
(* any-flag of the root node, the payload of a root Bool, and the is-empty *)
(* byte of a root String (empty string and nothing more consumed exactly   *)
(* when the byte is 1), for every byte value.                              *)
C3_LooseBoolDecode ==
    (Decoding /\ HasRoot) =>
        /\ dec.kind = "ok" => dec.val.properties.any_flag = (RootFlag = 1)
        /\ (RootTag = TYPE_BOOL /\ Len(file) >= 12) =>
              /\ dec.kind = "ok"
              /\ dec.val.properties.value.type = "Bool"
              /\ dec.val.properties.value.b = (file[12] = 1)
        /\ (RootTag = TYPE_STRING /\ Len(file) >= 12 /\ file[12] = 1) =>
              /\ dec.kind = "ok"
              /\ dec.val.properties.value.bytes = <<>>
              /\ dec.pos = 12
        /\ (RootTag = TYPE_STRING /\ Len(file) >= 12 /\ file[12] # 1
                /\ dec.kind = "ok") => dec.pos > 12

C3_Witness ==
    /\ Decoding
    /\ HasRoot
    /\ RootTag = TYPE_BOOL
    /\ RootFlag = 255
    /\ Len(file) = 12
    /\ file[12] = 2
    /\ dec.kind = "ok"
    /\ ~dec.val.properties.any_flag
    /\ ~dec.val.properties.value.b

(* C4: write_optimized_u32 writes a length below 255 as the one byte of    *)
(* its value and a length of 255 or more as 0xFF and the four bytes of the *)
(* length, least significant first; read_optimized_u32 reads the length    *)
(* back and consumes exactly the bytes written.                            *)
C4_LengthPrefix ==
    (job = "length" /\ pc \in {"written", "read"}) =>
        /\ len < 255 => prefix = <<len>>
        /\ len >= 255 =>
              /\ Len(prefix) = 5
              /\ prefix[1] = 255
              /\ \A i \in 2..5 : prefix[i] \in Byte
              /\ prefix[2] + 256 * prefix[3] + 65536 * prefix[4]
                     + 16777216 * prefix[5] = len
        /\ pc = "read" =>
              /\ lengthRead.kind = "ok"
              /\ lengthRead.val = len
              /\ lengthRead.pos = Len(prefix)

C4_Witness ==
    /\ job = "length"
    /\ pc = "read"
    /\ len = 255
    /\ prefix = <<255, 255, 0, 0, 0>>
    /\ lengthRead.val = 255

(* C5: a node whose tag byte is not one of 0..6, at the root, inside a     *)
(* Dictionary or two Dictionaries deep, makes the whole decode return the  *)
(* unknown-type error: no panic, no tree; and that error is only ever      *)
(* returned for such a tag byte.                                           *)
C5_UnknownTagRejected ==
    Decoding =>
        /\ (HasRoot /\ RootTag \notin 0..6) =>
              dec.kind = "err" /\ dec.err = "UnknownType" /\ tree = NoTree
        /\ (OneEntryRoot /\ file[19] \notin 0..6) =>
              dec.kind = "err" /\ dec.err = "UnknownType" /\ tree = NoTree
        /\ (TwoLevelRoot /\ file[26] \notin 0..6) =>
              dec.kind = "err" /\ dec.err = "UnknownType" /\ tree = NoTree
        /\ dec.err = "UnknownType" =>
              dec.kind = "err" /\ pc = "failed" /\ file[dec.pos - 1] \notin 0..6

C5_Witness ==
    /\ Decoding
    /\ TwoLevelRoot
    /\ file[26] = 7
    /\ dec.kind = "err"
    /\ dec.err = "UnknownType"
    /\ dec.pos = 27

(* C7: with the 8 header bytes and the reserved byte present, decode fails *)
(* with the reserved-byte error, having consumed 9 bytes, exactly when the *)
(* reserved byte is not 0x00, and otherwise goes on to the root node;      *)
(* encode always writes the byte as 0x00.                                  *)
C7_ReservedByte ==
    /\ (Decoding /\ Len(file) >= 9) =>
          /\ file[9] # 0 <=>
                (dec.kind = "err" /\ dec.err = "Byte at 0x8 should be false")
          /\ file[9] # 0 => dec.pos = 9 /\ pc = "failed"
          /\ (file[9] = 0 /\ Len(file) >= 11) => dec.pos >= 11
    /\ enc.kind # "not run" => Len(enc.bytes) >= 9 /\ enc.bytes[9] = 0

C7_Witness ==
    /\ Decoding
    /\ Len(file) = 11
    /\ file[9] = 2
    /\ dec.kind = "err"
    /\ dec.err = "Byte at 0x8 should be false"

(* ---- the projection ---- *)
Root == tree.properties.value

SectionKeys == <<STARTUP, RUNTIME_GLOBAL, RUNTIME_PER_USER>>

Channels == <<KEY_R, KEY_G, KEY_B, KEY_A>>

RECURSIVE AllFlagsFalse(_)
AllFlagsFalse(p) ==
    /\ ~p.any_flag
    /\ \A i \in 1..Len(p.value.dict) : AllFlagsFalse(p.value.dict[i][2])
    /\ \A i \in 1..Len(p.value.list) : AllFlagsFalse(p.value.list[i])

(* the leaf that stands for a setting value *)
IsLeafOf(p, sv) ==
    CASE sv.type = "None" -> p.value.type = "None"
      [] sv.type = "Bool" -> p.value.type = "Bool" /\ p.value.b = sv.b
      [] sv.type = "Number" -> p.value.type = "Double" /\ p.value.bytes = sv.bytes
      [] sv.type = "String" -> p.value.type = "String" /\ p.value.bytes = sv.bytes
      [] sv.type = "Integer" -> p.value.type = "Integer" /\ p.value.bytes = sv.bytes
      [] sv.type = "Color" ->
            /\ p.value.type = "Dictionary"
            /\ Keys(p.value.dict) = Channels
            /\ \A i \in 1..4 :
                  /\ p.value.dict[i][2].value.type = "Double"
                  /\ p.value.dict[i][2].value.bytes = sv.color[i]

SectionShape(section, map) ==
    /\ section.value.type = "Dictionary"
    /\ Keys(section.value.dict) = Keys(map)
    /\ \A i \in 1..Len(map) :
          LET entry == section.value.dict[i][2].value
          IN  /\ entry.type = "Dictionary"
              /\ Keys(entry.dict) = <<VALUE>>
              /\ IsLeafOf(entry.dict[1][2], map[i][2])

(* C9: from_simple returns a tree with the version of the simple settings, *)
(* whose root is a Dictionary of startup, runtime-global, runtime-per-user *)
(* in that order, each section holding the settings in their order as      *)
(* Dictionaries of the one key "value" with the matching leaf (a Color as  *)
(* the Dictionary r, g, b, a of Doubles), every any_flag being false.      *)
C9_FromSimpleShape ==
    (job = "simple" /\ pc # "start") =>
        /\ tree.version = mods.factorio_version
        /\ Root.type = "Dictionary"
        /\ Keys(Root.dict) = SectionKeys
        /\ SectionShape(Root.dict[1][2], mods.startup)
        /\ SectionShape(Root.dict[2][2], mods.runtime_global)
        /\ SectionShape(Root.dict[3][2], mods.runtime_per_user)
        /\ AllFlagsFalse(tree.properties)

C9_Witness ==
    /\ job = "simple"
    /\ pc = "built"
    /\ Len(mods.startup) = 2
    /\ mods.startup[1][1] # Name(1)
    /\ mods.startup[1][2].type = "Color"
    /\ mods.startup[2][2].type = "Integer"
    /\ Len(Root.dict[1][2].value.dict) = 2

(* C2: projecting the tree that from_simple built succeeds and gives back  *)
(* the simple settings it was built from.                                  *)
C2_ProjectionRoundTrip ==
    (job = "simple" /\ pc = "projected") =>
        projected.kind = "ok" /\ projected.val = mods

(* the tree holds one setting, in startup, whose value is a Dictionary;    *)
(* the other two sections are empty                                        *)
OneDictionarySetting ==
    /\ Root.type = "Dictionary"
    /\ Keys(Root.dict) = SectionKeys
    /\ \A i \in 1..3 : Root.dict[i][2].value.type = "Dictionary"
    /\ Len(Root.dict[1][2].value.dict) = 1
    /\ Root.dict[2][2].value.dict = <<>>
    /\ Root.dict[3][2].value.dict = <<>>
    /\ Root.dict[1][2].value.dict[1][2].value.type = "Dictionary"
    /\ Keys(Root.dict[1][2].value.dict[1][2].value.dict) = <<VALUE>>
    /\ Root.dict[1][2].value.dict[1][2].value.dict[1][2].value.type = "Dictionary"

ColorDict == Root.dict[1][2].value.dict[1][2].value.dict[1][2].value.dict

IsNumber(dict, key) == HasKey(dict, key) /\ Get(dict, key).value.type = "Double"

ChannelText(i) ==
    CASE i = 1 -> <<"missing r (red) value", "r (red) value is not number">>
      [] i = 2 -> <<"missing g (green) value", "g (green) value is not number">>
      [] i = 3 -> <<"missing b (blue) value", "b (blue) value is not number">>
      [] i = 4 -> <<"missing a (alpha) value", "a (alpha) value is not number">>

(* C10: a setting whose value is a Dictionary projects to the Color of the *)
(* numbers under r, g, b and a, each from its own key, and the projection  *)
(* fails with an error naming the first channel that is missing or is not  *)
(* a number.                                                               *)
C10_ColorChannels ==
    (pc = "projected" /\ OneDictionarySetting) =>
        /\ projected.kind = "ok" <=> \A i \in 1..4 : IsNumber(ColorDict, Channels[i])
        /\ projected.kind = "ok" =>
              \A i \in 1..4 :
                  /\ HasKey(ColorDict, Channels[i])
                  /\ projected.val.startup[1][2].color[i] =
                        Get(ColorDict, Channels[i]).value.bytes
        /\ \A i \in 1..4 :
              (/\ ~IsNumber(ColorDict, Channels[i])
               /\ \A j \in 1..(i - 1) : IsNumber(ColorDict, Channels[j])) =>
                  projected.err =
                      ChannelText(i)[IF HasKey(ColorDict, Channels[i]) THEN 2 ELSE 1]

MissingText(i) ==
    CASE i = 1 -> "Missing startup settings"
      [] i = 2 -> "Missing runtime-global settings"
      [] i = 3 -> "Missing runtime-per-user settings"

Missing(i) == ~HasKey(Root.dict, SectionKeys[i])

(* C6 as stated: with a section missing the projection fails with the      *)
(* error that names the first missing section; it fails too when the root  *)
(* or a present section is not a Dictionary.                               *)
C6_SectionCompleteness ==
    pc = "projected" =>
        /\ Root.type # "Dictionary" => projected.kind = "err"
        /\ Root.type = "Dictionary" =>
              \A i \in 1..3 :
                  /\ (Missing(i) /\ \A j \in 1..(i - 1) : ~Missing(j)) =>
                        projected.kind = "err" /\ projected.err = MissingText(i)
                  /\ (~Missing(i)
                        /\ Get(Root.dict, SectionKeys[i]).value.type # "Dictionary") =>
                        projected.kind = "err"

(* C6 amended: with a section missing, or the root or a present section    *)
(* not a Dictionary, the projection fails; the sections are projected in   *)
(* the order startup, runtime-global, runtime-per-user and the error is    *)
(* that of the first one that fails: it names a missing section when every *)
(* section before it is present and projects.                              *)
C6_SectionCompletenessAmended ==
    pc = "projected" =>
        /\ Root.type # "Dictionary" =>
              /\ projected.kind = "err"
              /\ projected.err = "Main properties is not a dictionary"
        /\ Root.type = "Dictionary" =>
              \A i \in 1..3 :
                  /\ Missing(i) => projected.kind = "err"
                  /\ (~Missing(i)
                        /\ Get(Root.dict, SectionKeys[i]).value.type # "Dictionary") =>
                        projected.kind = "err"
                  /\ (/\ Missing(i)
                      /\ \A j \in 1..(i - 1) :
                            property_map_parse(Root.dict, SectionKeys[j]).kind = "ok") =>
                        projected.err = MissingText(i)
                  /\ (/\ property_map_parse(Root.dict, SectionKeys[i]).kind # "ok"
                      /\ \A j \in 1..(i - 1) :
                            property_map_parse(Root.dict, SectionKeys[j]).kind = "ok") =>
                        projected.err =
                            property_map_parse(Root.dict, SectionKeys[i]).err

C6_Witness ==
    /\ job = "tree"
    /\ pc = "projected"
    /\ Root.type = "Dictionary"
    /\ Keys(Root.dict) = <<STARTUP, RUNTIME_GLOBAL>>
    /\ Len(Root.dict[1][2].value.dict) = 2
    /\ projected.kind = "err"
    /\ projected.err = "Missing runtime-per-user settings"

(* ---- dictionaries on the wire ---- *)
RECURSIVE WirePairs(_, _, _)
RECURSIVE WireValue(_, _, _)
RECURSIVE WireRest(_, _, _, _)
(* the n (key, Property) pairs that stand one after the other from pos on *)
WirePairs(bs, pos, n) ==
    IF n = 0 THEN <<>> ELSE WireValue(bs, StringDecode(bs, pos), n)

WireValue(bs, key, n) == WireRest(bs, key.val, PropertyDecode(bs, key.pos), n)

WireRest(bs, key, value, n) ==
    <<<<key, value.val>>>> \o WirePairs(bs, value.pos, n - 1)

(* the pairs of the root Dictionary of a stream *)
RootPairs(bs) == WirePairs(bs, 15, FromLE32(SubSeq(bs, 12, 15)))

DistinctKeys(pairs) ==
    \A i, j \in 1..Len(pairs) : pairs[i][1] = pairs[j][1] => i = j

(* the places of the pairs whose key no earlier pair has *)
FirstPlaces(pairs) ==
    {i \in 1..Len(pairs) : \A j \in 1..(i - 1) : pairs[j][1] # pairs[i][1]}

LastPlace(pairs, key) ==
    CHOOSE i \in 1..Len(pairs) :
        /\ pairs[i][1] = key
        /\ \A j \in (i + 1)..Len(pairs) : pairs[j][1] # key

(* map holds each key of the pairs once, at the rank of the key's first   *)
(* pair, with the value of the key's last pair                             *)
Collapses(map, pairs) ==
    /\ Len(map) = Cardinality(FirstPlaces(pairs))
    /\ \A i \in FirstPlaces(pairs) :
          /\ map[Cardinality({j \in FirstPlaces(pairs) : j <= i})][1] = pairs[i][1]
          /\ map[Cardinality({j \in FirstPlaces(pairs) : j <= i})][2] =
                pairs[LastPlace(pairs, pairs[i][1])][2]

DecodedDictionary == Decoding /\ dec.kind = "ok" /\ RootTag = TYPE_DICTIONARY

(* C8 as stated: the root Dictionary of a decoded stream is the pairs of   *)
(* the stream in their order; encoding writes the count and the entries in *)
(* the mapping's order, and decoding the result gives the same key order.  *)
C8_DictionaryOrder ==
    DecodedDictionary =>
        /\ Root.dict = RootPairs(file)
        /\ pc \in {"encoded", "reloaded"} =>
              /\ SubSeq(enc.bytes, 12, 15) = ToLE32(Len(Root.dict))
              /\ RootPairs(enc.bytes) = Root.dict
        /\ pc = "reloaded" =>
              /\ redec.kind = "ok"
              /\ Keys(redec.val.properties.value.dict) = Keys(Root.dict)

(* C8 amended: decoding reads the n pairs of the stream and keeps each key *)
(* once, at the place of its first pair and with the value of its last     *)
(* pair, so the mapping is the pairs in their order when their keys differ *)
(* and is shorter than n otherwise; encoding writes the count and the      *)
(* entries in the mapping's order, and decoding the result gives the same  *)
(* key order.                                                              *)
C8_DictionaryOrderAmended ==
    DecodedDictionary =>
        /\ Collapses(Root.dict, RootPairs(file))
        /\ DistinctKeys(RootPairs(file)) <=> Root.dict = RootPairs(file)
        /\ ~DistinctKeys(RootPairs(file)) =>
              Len(Root.dict) < FromLE32(SubSeq(file, 12, 15))
        /\ pc \in {"encoded", "reloaded"} =>
              /\ SubSeq(enc.bytes, 12, 15) = ToLE32(Len(Root.dict))
              /\ RootPairs(enc.bytes) = Root.dict
        /\ pc = "reloaded" =>
              /\ redec.kind = "ok"
              /\ Keys(redec.val.properties.value.dict) = Keys(Root.dict)

C8_Witness ==
    /\ DecodedDictionary
    /\ pc = "reloaded"
    /\ FromLE32(SubSeq(file, 12, 15)) = 3
    /\ Keys(RootPairs(file)) = <<<<97>>, <<98>>, <<97>>>>
    /\ Keys(Root.dict) = <<<<97>>, <<98>>>>
    /\ Root.dict[1][2].value.b = FALSE
    /\ Keys(redec.val.properties.value.dict) = <<<<97>>, <<98>>>>

(* ---- streams that encode writes ---- *)
RECURSIVE CanonNode(_, _)
RECURSIVE CanonEntries(_, _, _, _)
RECURSIVE CanonEntry(_, _, _, _, _)

(* where the bytes of a string with the not-empty byte 0 at pos + 1 start *)
TextStart(bs, pos) == IF bs[pos + 2] < 255 THEN pos + 2 ELSE pos + 6

TextLen(bs, pos) ==
    IF bs[pos + 2] < 255 THEN bs[pos + 2]
    ELSE FromLE32(SubSeq(bs, pos + 3, pos + 6))

(* the place after a string written from pos on with the byte 0 and the    *)
(* shortest length prefix, -1 when it is written otherwise                 *)
CanonString(bs, pos) ==
    IF bs[pos + 1] # 0 THEN -1
    ELSE IF bs[pos + 2] = 255 /\ TextLen(bs, pos) < 255 THEN -1
    ELSE TextStart(bs, pos) + TextLen(bs, pos)

(* the place after a node written from pos on the way encode writes it,    *)
(* -1 when it is written otherwise                                         *)
CanonNode(bs, pos) ==
    IF bs[pos + 2] \notin {0, 1} THEN -1
    ELSE CASE bs[pos + 1] = TYPE_NONE -> pos + 2
           [] bs[pos + 1] = TYPE_BOOL ->
                 IF bs[pos + 3] \in {0, 1} THEN pos + 3 ELSE -1
           [] bs[pos + 1] \in {TYPE_DOUBLE, TYPE_INTEGER} -> pos + 10
           [] bs[pos + 1] = TYPE_STRING -> CanonString(bs, pos + 2)
           [] bs[pos + 1] = TYPE_DICTIONARY ->
                 CanonEntries(bs, pos + 6,
                              FromLE32(SubSeq(bs, pos + 3, pos + 6)), {})
           [] OTHER -> -1

CanonEntries(bs, pos, n, seen) ==
    IF n = 0 THEN pos
    ELSE CanonEntry(bs, pos, CanonString(bs, pos), n, seen)

CanonEntry(bs, pos, end, n, seen) ==
    IF end = -1 THEN -1
    ELSE IF SubSeq(bs, TextStart(bs, pos) + 1, end) \in seen THEN -1
    ELSE IF CanonNode(bs, end) = -1 THEN -1
    ELSE CanonEntries(bs, CanonNode(bs, end), n - 1,
                      seen \cup {SubSeq(bs, TextStart(bs, pos) + 1, end)})

(* every boolean byte is 0 or 1, every string has the not-empty byte 0 and *)
(* the shortest length prefix, no Dictionary has a key twice and nothing   *)
(* follows the root node                                                   *)
Canonical(bs) == CanonNode(bs, 9) = Len(bs)

(* C1 as stated: encoding the tree decoded from a stream gives the stream. *)
C1_RoundTripIdentity ==
    (job = "decode" /\ pc = "encoded") => enc.bytes = file

(* C1 amended: encoding the tree decoded from a stream gives the stream    *)
(* exactly when the stream is written the way encode writes: boolean and   *)
(* any-flag bytes 0 or 1, strings with the not-empty byte 0 and the        *)
(* shortest length prefix, no Dictionary key twice, no trailing bytes.     *)
C1_RoundTripCanonical ==
    (job = "decode" /\ pc = "encoded") =>
        /\ enc.kind = "ok"
        /\ enc.bytes = file <=> Canonical(file)

C1_Witness ==
    /\ job = "decode"
    /\ pc = "encoded"
    /\ RootTag = TYPE_DICTIONARY
    /\ Canonical(file)
    /\ Len(Root.dict) = 1
    /\ Root.dict[1][2].value.type = "Dictionary"
    /\ enc.bytes = file

(* ---- settings with a scalar value ---- *)
(* the three sections are present and are Dictionaries *)
ThreeSections ==
    /\ Root.type = "Dictionary"
    /\ Keys(Root.dict) = SectionKeys
    /\ \A i \in 1..3 : Root.dict[i][2].value.type = "Dictionary"

SectionEntries(i) == Root.dict[i][2].value.dict

HasValue(entry) == entry.value.type = "Dictionary" /\ HasKey(entry.value.dict, VALUE)

ScalarSetting(entry) ==
    /\ HasValue(entry)
    /\ Get(entry.value.dict, VALUE).value.type \in {"Bool", "Double", "Integer", "String"}

SimpleSection(result, i) ==
    CASE i = 1 -> result.startup
      [] i = 2 -> result.runtime_global
      [] i = 3 -> result.runtime_per_user

(* the setting value that a scalar leaf stands for *)
Classified(leaf, sv) ==
    CASE leaf.type = "Bool" -> sv.type = "Bool" /\ sv.b = leaf.b
      [] leaf.type = "Double" -> sv.type = "Number" /\ sv.bytes = leaf.bytes
      [] leaf.type = "Integer" -> sv.type = "Integer" /\ sv.bytes = leaf.bytes
      [] leaf.type = "String" -> sv.type = "String" /\ sv.bytes = leaf.bytes

(* C11: when every entry of the three sections has a Bool, Double, Integer *)
(* or String under "value", the projection succeeds and gives for each     *)
(* entry the Bool, Number, Integer or String of the same payload.          *)
C11_ScalarClassification ==
    (pc = "projected" /\ ThreeSections
        /\ \A i \in 1..3 : \A k \in 1..Len(SectionEntries(i)) :
              ScalarSetting(SectionEntries(i)[k][2])) =>
        /\ projected.kind = "ok"
        /\ \A i \in 1..3 :
              /\ Keys(SimpleSection(projected.val, i)) = Keys(SectionEntries(i))
              /\ \A k \in 1..Len(SectionEntries(i)) :
                    Classified(Get(SectionEntries(i)[k][2].value.dict, VALUE).value,
                               SimpleSection(projected.val, i)[k][2])

(* an entry that is no Dictionary, has no "value", or has a None or a List *)
(* under "value"                                                           *)
BadEntry(entry) ==
    \/ entry.value.type # "Dictionary"
    \/ ~HasKey(entry.value.dict, VALUE)
    \/ Get(entry.value.dict, VALUE).value.type \in {"None", "List"}

SectionHasBadEntry(section) ==
    /\ section.value.type = "Dictionary"
    /\ \E k \in 1..Len(section.value.dict) : BadEntry(section.value.dict[k][2])

(* C12: when an entry of the startup, runtime-global or runtime-per-user   *)
(* section is no Dictionary, has no "value" key, or has a None or a List   *)
(* under "value", the projection is an error and returns no settings.      *)
C12_StructuralRejection ==
    (pc = "projected" /\ Root.type = "Dictionary"
        /\ \E i \in 1..3 :
              /\ HasKey(Root.dict, SectionKeys[i])
              /\ SectionHasBadEntry(Get(Root.dict, SectionKeys[i]))) =>
        /\ projected.kind = "err"
        /\ projected.val = <<>>

C12_Witness ==
    /\ job = "tree"
    /\ pc = "projected"
    /\ ThreeSections
    /\ Len(SectionEntries(1)) = 2
    /\ \A k \in 1..2 : ScalarSetting(SectionEntries(1)[k][2])
    /\ Get(SectionEntries(1)[1][2].value.dict, VALUE).value.type = "String"
    /\ Len(SectionEntries(2)) = 1
    /\ HasValue(SectionEntries(2)[1][2])
    /\ Get(SectionEntries(2)[1][2].value.dict, VALUE).value.type = "List"
    /\ SectionEntries(3) = <<>>
    /\ projected.kind = "err"
    /\ projected.err = "Invalid type for value parameter"

(* ---- outcomes of encode and decode ---- *)
(* C13: Settings::encode of any tree, a List at any depth included,        *)
(* completes and returns success.                                          *)
C13_EncodeTotal ==
    enc # NoEncoding => enc.kind = "ok"

(* C14: a decode that does not succeed returns an error for the whole      *)
(* decode and no tree, also when the stream holds a node with the List     *)
(* tag 4.                                                                  *)
C14_DecodeFailsWithError ==
    (Decoding /\ dec.kind # "ok") =>
        /\ dec.kind = "err"
        /\ dec.val = <<>>
        /\ tree = NoTree

(* ---- the order of versions ---- *)
Fields(v) == <<v.major, v.minor, v.patch, v.build>>

Differing(a, b) == {i \in 1..4 : Fields(a)[i] # Fields(b)[i]}

FirstDiffering(a, b) ==
    CHOOSE i \in Differing(a, b) : \A j \in Differing(a, b) : i <= j

(* the lexicographic comparison of (major, minor, patch, build) *)
Lexicographic(a, b) ==
    IF Differing(a, b) = {} THEN "Equal"
    ELSE IF Fields(a)[FirstDiffering(a, b)] < Fields(b)[FirstDiffering(a, b)]
    THEN "Less"
    ELSE "Greater"

Opposite(o) ==
    CASE o = "Less" -> "Greater"
      [] o = "Greater" -> "Less"
      [] o = "Equal" -> "Equal"

Compared == job = "compare" /\ pc = "compared"

(* C15: cmp is the lexicographic order on (major, minor, patch, build): it *)
(* is Equal exactly for equal versions and otherwise the comparison of the *)
(* first field that differs; the order is total, antisymmetric and         *)
(* transitive, and partial_cmp is Some of what cmp returns.                *)
C15_VersionOrdering ==
    Compared =>
        /\ ordering \in {"Less", "Equal", "Greater"}
        /\ ordering = Lexicographic(left, right)
        /\ ordering = "Equal" <=> left = right
        /\ cmp(right, left) = Opposite(ordering)
        /\ \A third \in VersionSet :
              /\ (ordering = "Less" /\ cmp(right, third) \in {"Less", "Equal"}) =>
                    cmp(left, third) = "Less"
              /\ (ordering = "Equal" /\ cmp(right, third) = "Less") =>
                    cmp(left, third) = "Less"
              /\ (ordering = "Equal" /\ cmp(right, third) = "Equal") =>
                    cmp(left, third) = "Equal"
        /\ partialOrdering = <<ordering>>

C15_Witness ==
    /\ Compared
    /\ left = [major |-> 1, minor |-> 65535, patch |-> 0, build |-> 0]
    /\ right = [major |-> 1, minor |-> 65535, patch |-> 0, build |-> 1]
    /\ ordering = "Less"
    /\ partialOrdering = <<"Less">>

(* ---- strings on the wire ---- *)
(* the length prefix that a length is written with *)
PrefixOf(n) ==
    IF n < 255 THEN <<n>>
    ELSE <<255, n % 256, (n \div 256) % 256, (n \div 65536) % 256,
           (n \div 16777216) % 256>>

RootString == HasRoot /\ RootTag = TYPE_STRING /\ Len(file) >= 12

(* C16: String::encode writes the byte 0, the length prefix and the bytes, *)
(* the empty string as 00 00 and never as 01; String::decode returns the   *)
(* empty string and reads nothing more when the first byte is 1, and       *)
(* otherwise reads the length prefix and that many bytes.                  *)
C16_StringEmptyByte ==
    /\ (Decoding /\ RootString /\ file[12] = 1) =>
          /\ dec.kind = "ok"
          /\ dec.val.properties.value.type = "String"
          /\ dec.val.properties.value.bytes = <<>>
          /\ dec.pos = 12
    /\ (Decoding /\ RootString /\ file[12] # 1 /\ dec.kind = "ok") =>
          /\ Len(dec.val.properties.value.bytes) = TextLen(file, 11)
          /\ dec.val.properties.value.bytes =
                SubSeq(file, TextStart(file, 11) + 1,
                       TextStart(file, 11) + TextLen(file, 11))
          /\ dec.pos = TextStart(file, 11) + TextLen(file, 11)
    /\ (enc # NoEncoding /\ Root.type = "String") =>
          /\ enc.kind = "ok"
          /\ enc.bytes[12] = 0
          /\ SubSeq(enc.bytes, 12, Len(enc.bytes)) =
                <<0>> \o PrefixOf(Len(Root.bytes)) \o Root.bytes
          /\ Root.bytes = <<>> => SubSeq(enc.bytes, 12, Len(enc.bytes)) = <<0, 0>>

C16_Witness ==
    /\ job = "decode"
    /\ pc = "encoded"
    /\ RootString
    /\ file[12] = 1
    /\ Len(file) = 12
    /\ Root.bytes = <<>>
    /\ SubSeq(enc.bytes, 12, Len(enc.bytes)) = <<0, 0>>

(* ---- trees without a List ---- *)
RECURSIVE ListFree(_)
ListFree(p) ==
    /\ p.value.type # "List"
    /\ \A i \in 1..Len(p.value.dict) : ListFree(p.value.dict[i][2])

RECURSIVE SomeFlagSet(_)
SomeFlagSet(p) ==
    \/ p.any_flag
    \/ \E i \in 1..Len(p.value.dict) : SomeFlagSet(p.value.dict[i][2])

(* C17: the bytes that Settings::encode writes for a tree without a List   *)
(* decode, to their last byte, to a tree equal to it in version, variants, *)
(* payloads, any_flag and key order.                                       *)
C17_TreeRoundTrip ==
    /\ (enc # NoEncoding /\ ListFree(tree.properties)) => enc.kind = "ok"
    /\ pc = "reloaded" =>
          /\ redec.kind = "ok"
          /\ redec.val = tree
          /\ redec.val.version = tree.version
          /\ redec.val.properties.any_flag = tree.properties.any_flag
          /\ Keys(redec.val.properties.value.dict) = Keys(Root.dict)
          /\ redec.pos = Len(enc.bytes)

C17_Witness ==
    /\ job = "tree"
    /\ pc = "reloaded"
    /\ ThreeSections
    /\ Len(SectionEntries(1)) = 2
    /\ SomeFlagSet(tree.properties)
    /\ Len(SectionEntries(2)) = 1
    /\ redec.kind = "ok"
    /\ redec.val = tree

====
